---- MODULE Spec2Model ----
(***************************************************************************)
(* Backtracking search for constraint satisfaction problems, as written    *)
(* in csp_demo.py: the CSP base class and its three puzzles                *)
(* (MapColoringCSP, SudokuCSP, NQueensCSP).  One behaviour is one solver   *)
(* object: it is constructed by Init and solve_backtracking() is called on *)
(* it up to MaxCalls times.  The recursion of backtrack() is unfolded into *)
(* an explicit stack of call frames, one step per loop iteration.          *)
(***************************************************************************)
EXTENDS Integers, Sequences, FiniteSets, TLC

\* ---------------------------------------------------------------- bounds
MaxRegions   == 2   \* map coloring: at most this many regions
MaxColors    == 2   \* map coloring: at most this many colors
MaxNeighbors == 2   \* map coloring: longest neighbor list
MaxN         == 6   \* N-Queens: largest board
MaxGivens    == 1   \* Sudoku: sparse grids have at most this many filled cells
MaxBlanks    == 2   \* Sudoku: grids with at most this many empty cells
MaxCalls     == 2   \* solve_backtracking() calls on one solver object

\* ------------------------------------------------- Python values, helpers
Range(s) == {s[i] : i \in DOMAIN s}

range(lo, hi) == [k \in 1..(IF hi > lo THEN hi - lo ELSE 0) |-> lo + k - 1]

RECURSIVE concat(_)
concat(ss) == IF ss = <<>> THEN <<>> ELSE Head(ss) \o concat(Tail(ss))

abs(x) == IF x < 0 THEN -x ELSE x

\* int(np.sqrt(size))
RECURSIVE isqrt_from(_, _)
isqrt_from(x, k) == IF (k + 1) * (k + 1) > x THEN k ELSE isqrt_from(x, k + 1)
int_sqrt(x) == isqrt_from(x, 0)

\* strings that are built and parsed by the program are sequences of
\* characters, so that formatting and parsing are computed, not assumed
Digit == <<"0", "1", "2", "3", "4", "5", "6", "7", "8", "9">>

RECURSIVE str(_)
str(k) == IF k < 10 THEN <<Digit[k + 1]>>
          ELSE str(k \div 10) \o <<Digit[(k % 10) + 1]>>

RECURSIVE int(_)
int(s) == IF Len(s) = 1 THEN (CHOOSE d \in 0..9 : Digit[d + 1] = s[1])
          ELSE 10 * int(SubSeq(s, 1, Len(s) - 1))
               + (CHOOSE d \in 0..9 : Digit[d + 1] = s[Len(s)])

\* s.split(sep) for a one-character separator
RECURSIVE split_from(_, _, _)
split_from(s, sep, cur) ==
    IF s = <<>> THEN <<cur>>
    ELSE IF Head(s) = sep THEN <<cur>> \o split_from(Tail(s), sep, <<>>)
    ELSE split_from(Tail(s), sep, Append(cur, Head(s)))
split(s, sep) == split_from(s, sep, <<>>)

\* f"cell_{i}_{j}"
cell_name(i, j) == <<"c", "e", "l", "l", "_">> \o str(i) \o <<"_">> \o str(j)
\* f"queen_{i}"
queen_name(i) == <<"q", "u", "e", "e", "n", "_">> \o str(i)
\* mutant: row and column taken in the wrong order
cell_index_swapped(var) == LET parts == Tail(split(var, "_"))
                           IN  <<int(parts[2]), int(parts[1])>>

\* i, j = map(int, var.split('_')[1:])
cell_index(var) == LET parts == Tail(split(var, "_"))
                   IN  <<int(parts[1]), int(parts[2])>>

\* A Python dict keeps insertion order: a sequence of <<key, value>> pairs.
dict_has(d, k) == \E p \in DOMAIN d : d[p][1] = k
dict_get(d, k) == d[CHOOSE p \in DOMAIN d : d[p][1] = k][2]
\* d[k] = v : overwrites in place, or appends a new key at the end
dict_set(d, k, v) ==
    IF dict_has(d, k)
    THEN [p \in DOMAIN d |-> IF d[p][1] = k THEN <<k, v>> ELSE d[p]]
    ELSE Append(d, <<k, v>>)
\* mutant: del that removes nothing
dict_del_noop(d, k) == d

\* del d[k]
dict_del(d, k) == SelectSeq(d, LAMBDA e : e[1] /= k)
dict_values(d) == [p \in DOMAIN d |-> d[p][2]]
dict_keys(d) == [p \in DOMAIN d |-> d[p][1]]

\* The failure marker None, and a returned value.
None == [none |-> TRUE, val |-> <<>>]
Some(v) == [none |-> FALSE, val |-> v]
\* mutant: "if result is not None:"
truthy_not_none(r) == ~r.none

\* "if result:" - None, {} and [] are all false
truthy(r) == (~r.none) /\ Len(r.val) > 0

\* sorted(xs, key=...): Python computes every key first, then sorts the
\* decorated <<key, x>> pairs stably (ascending by key)
\* mutant: an insertion that puts x before the elements with an equal key
RECURSIVE insert_by_unstable(_, _)
insert_by_unstable(x, ys) ==
    IF ys = <<>> THEN <<x>>
    ELSE IF x[1] <= Head(ys)[1] THEN <<x>> \o ys
    ELSE <<Head(ys)>> \o insert_by_unstable(x, Tail(ys))

RECURSIVE insert_by(_, _)
insert_by(x, ys) ==
    IF ys = <<>> THEN <<x>>
    ELSE IF x[1] < Head(ys)[1] THEN <<x>> \o ys
    ELSE <<Head(ys)>> \o insert_by(x, Tail(ys))
RECURSIVE sorted_from(_, _)
sorted_from(xs, acc) ==
    IF xs = <<>> THEN acc
    ELSE sorted_from(Tail(xs), insert_by(Head(xs), acc))
sorted(xs, keys) ==
    LET decorated == [p \in DOMAIN xs |-> <<keys[p], xs[p]>>]
        result == sorted_from(decorated, <<>>)
    IN  [p \in DOMAIN result |-> result[p][2]]

\* ------------------------------------------------------------------ state
VARIABLES
    kind,             \* which class the solver object is: "map", "sudoku", "queens"
    neighbors,        \* MapColoringCSP.neighbors: region -> neighbor list
    grid,             \* SudokuCSP.grid (rows and columns indexed from 0)
    n,                \* NQueensCSP.n
    variables,        \* CSP.variables: list, in declared order
    domains,          \* CSP.domains: variable -> list of values
    constraints,      \* CSP.constraints: list of constraint closures (by name)
    assignments,      \* CSP.assignments: insertion-ordered dict
    backtrack_count,  \* CSP.backtrack_count
    pc,               \* position: "idle", "backtrack", "for", "return", "raised"
    stack,            \* active backtrack() frames: [var, values, i], with the
                      \* history field entry: the assignments at the call
    ret,              \* value a backtrack() frame has just returned
    solution,         \* value the last solve_backtracking() call returned
    calls,            \* number of solve_backtracking() calls started
    input,            \* history: the constructor's argument
    runs,             \* history: <<result, backtrack_count>> of every finished call
    startLen,         \* history: len(assignments) when the current call started
    nCommits,         \* history: values kept by is_consistent in the current call
    nIncons,          \* history: values rejected by is_consistent in the current call
    nEvals,           \* history: constraint evaluations in the current call
    firstBad          \* history: some frame's first value was rejected in this call

vars == <<kind, neighbors, grid, n, variables, domains, constraints,
          assignments, backtrack_count, pc, stack, ret, solution, calls,
          input, runs, startLen, nCommits, nIncons, nEvals, firstBad>>

problem == <<kind, neighbors, n, variables, domains, constraints, input>>

\* ------------------------------------------------------------ constraints
\* self.neighbors.get(region, []) ; the list is only scanned for a match,
\* so its order and repetitions do not matter and it is kept as a set
neighbors_get(region) ==
    IF region \in DOMAIN neighbors THEN neighbors[region] ELSE {}

different_colors_constraint(asg) ==
    ~ \E p \in DOMAIN asg :
        \E neighbor \in neighbors_get(asg[p][1]) :
            dict_has(asg, neighbor) /\ asg[p][2] = dict_get(asg, neighbor)

\* the values collected for a row, a column or a box: the fixed cells and
\* the assigned empty cells, in scan order
collect_values(g, asg, cells) ==
    concat([p \in DOMAIN cells |->
        LET i == cells[p][1]
            j == cells[p][2]
        IN  IF g[i][j] /= 0 THEN <<g[i][j]>>
            ELSE IF dict_has(asg, cell_name(i, j))
                 THEN <<dict_get(asg, cell_name(i, j))>>
                 ELSE <<>>])

\* len(values) != len(set(values))
has_duplicate(values) == Len(values) /= Cardinality(Range(values))

size_of(g) == Cardinality(DOMAIN g)
box_size_of(g) == int_sqrt(size_of(g))

sudoku_constraints(asg) ==
    LET size == size_of(grid)
        box_size == box_size_of(grid)
        row(i) == [p \in 1..size |-> <<i, p - 1>>]
        col(j) == [p \in 1..size |-> <<p - 1, j>>]
        box(bi, bj) == [p \in 1..(box_size * box_size) |->
                          <<bi + ((p - 1) \div box_size),
                            bj + ((p - 1) % box_size)>>]
        corners == {b \in 0..(size - 1) : b % box_size = 0}
    IN  /\ \A i \in 0..(size - 1) : ~has_duplicate(collect_values(grid, asg, row(i)))
        /\ \A j \in 0..(size - 1) : ~has_duplicate(collect_values(grid, asg, col(j)))
        /\ \A bi \in corners : \A bj \in corners :
               ~has_duplicate(collect_values(grid, asg, box(bi, bj)))

\* mutant: the diagonal test without abs()
queens_constraints_signed(asg) ==
    LET positions == dict_values(asg)
    IN  \A i \in DOMAIN positions : \A j \in DOMAIN positions :
            (i < j) => /\ positions[i] /= positions[j]
                       /\ positions[i] - positions[j] /= i - j

\* the index of a queen is its position in the dict, not its name
queens_constraints(asg) ==
    LET positions == dict_values(asg)
    IN  \A i \in DOMAIN positions : \A j \in DOMAIN positions :
            (i < j) => /\ positions[i] /= positions[j]
                       /\ abs(positions[i] - positions[j]) /= abs(i - j)

\* constraint(self.assignments)
constraint(c, asg) ==
    CASE c = "different_colors_constraint" -> different_colors_constraint(asg)
      [] c = "sudoku_constraints"          -> sudoku_constraints(asg)
      [] c = "queens_constraints"          -> queens_constraints(asg)

\* ------------------------------------------------------------ CSP methods
\* mutant: off by one, complete with one variable still unassigned
is_complete_short == Len(assignments) >= Len(variables) - 1

is_complete == Len(assignments) = Len(variables)

\* mutant: the constraints are checked before the value is inserted
is_consistent_unset(var, value) ==
    \A c \in DOMAIN constraints : constraint(constraints[c], assignments)

\* is_consistent: the value it returns ...
is_consistent(var, value) ==
    \A c \in DOMAIN constraints :
        constraint(constraints[c], dict_set(assignments, var, value))

\* ... the assignments it leaves behind ...
is_consistent_assignments(var, value) ==
    IF is_consistent(var, value)
    THEN dict_set(assignments, var, value)
    ELSE dict_del(dict_set(assignments, var, value), var)

\* ... and the number of constraints it evaluates (it stops at the first
\* one that fails)
is_consistent_evals(var, value) ==
    LET failing == {c \in DOMAIN constraints :
                      ~constraint(constraints[c], dict_set(assignments, var, value))}
    IN  IF failing = {} THEN Len(constraints)
        ELSE CHOOSE c \in failing : \A d \in failing : c <= d

\* mutant: the first unassigned variable, whatever its domain
select_first_unassigned ==
    LET unassigned == SelectSeq(variables, LAMBDA var : ~dict_has(assignments, var))
    IN  unassigned[1]

\* mutant: ties go to the last variable instead of the first
select_last_unassigned ==
    LET unassigned == SelectSeq(variables, LAMBDA var : ~dict_has(assignments, var))
        key(var) == Len(domains[var])
        p == CHOOSE q \in DOMAIN unassigned :
                /\ \A r \in DOMAIN unassigned : key(unassigned[q]) <= key(unassigned[r])
                /\ \A r \in (q + 1)..Len(unassigned) : key(unassigned[r]) > key(unassigned[q])
    IN  unassigned[p]

\* min(unassigned, key=...): the first element whose key is the smallest
select_unassigned_variable ==
    LET unassigned == SelectSeq(variables, LAMBDA var : ~dict_has(assignments, var))
        key(var) == Len(domains[var])
        p == CHOOSE q \in DOMAIN unassigned :
                /\ \A r \in DOMAIN unassigned : key(unassigned[q]) <= key(unassigned[r])
                /\ \A r \in 1..(q - 1) : key(unassigned[r]) > key(unassigned[q])
    IN  unassigned[p]

count_conflicts(asg, var, value) ==
    Cardinality({c \in DOMAIN constraints :
                    ~constraint(constraints[c], dict_set(asg, var, value))})

\* order_domain_values: every count_conflicts call sets and then deletes
\* assignments[var], so the calls after the first see var deleted
order_domain_values(var) ==
    LET values == domains[var]
        seen(p) == IF p = 1 THEN assignments ELSE dict_del(assignments, var)
    IN  sorted(values, [p \in DOMAIN values |-> count_conflicts(seen(p), var, values[p])])

order_domain_values_assignments(var) ==
    IF domains[var] = <<>> THEN assignments ELSE dict_del(assignments, var)

\* mutant: the domain is sorted in place (list.sort) instead of copied
order_domain_values_in_place(var) == [domains EXCEPT ![var] = order_domain_values(var)]

\* self.domains after order_domain_values: sorted() builds a new list and
\* leaves self.domains[var] as it was
order_domain_values_domains(var) == domains

\* ----------------------------------------------------------- constructors
RegionNames == <<"A", "B", "C", "D", "E">>
ColorNames == <<"red", "green", "blue", "yellow", "black">>

\* domains={region: colors.copy() for region in regions}
MapColoringDomains(regions, colors) == [region \in Range(regions) |-> colors]

\* the empty cells, row by row
SudokuVariables(g) ==
    LET size == size_of(g)
    IN  concat([p \in 1..(size * size) |->
            LET i == (p - 1) \div size
                j == (p - 1) % size
            IN  IF g[i][j] = 0 THEN <<cell_name(i, j)>> ELSE <<>>])

SudokuDomains(g) ==
    [var \in Range(SudokuVariables(g)) |-> range(1, size_of(g) + 1)]

\* mutant: the queens declared from the last row to the first
NQueensVariables_reversed(nn) == [p \in 1..nn |-> queen_name(nn - p)]

NQueensVariables(nn) == [p \in 1..nn |-> queen_name(p - 1)]

NQueensDomains(nn) == [var \in Range(NQueensVariables(nn)) |-> range(0, nn)]

\* CSP.__init__ after the subclass constructor has built its arguments
CSPInit(vs, ds, cs) ==
    /\ variables = vs
    /\ domains = ds
    /\ constraints = cs
    /\ assignments = <<>>
    /\ backtrack_count = 0

Fresh ==
    /\ pc = "idle"
    /\ stack = <<>>
    /\ ret = None
    /\ solution = None
    /\ calls = 0
    /\ runs = <<>>
    /\ startLen = 0
    /\ nCommits = 0
    /\ nIncons = 0
    /\ nEvals = 0
    /\ firstBad = FALSE

\* ---- the inputs
MapNeighbors(regions) ==
    [Range(regions) -> {S \in SUBSET Range(regions) : Cardinality(S) <= MaxNeighbors}]

MapInputs ==
    UNION {{[regions |-> SubSeq(RegionNames, 1, km[1]),
             neighbors |-> nb,
             colors |-> SubSeq(ColorNames, 1, km[2])] :
                nb \in MapNeighbors(SubSeq(RegionNames, 1, km[1]))} :
           km \in (0..MaxRegions) \X (0..MaxColors)}

SudokuSizes == {1, 4}

\* a solved 4x4 grid, the same grid with one wrong cell, and the 1x1 grid
SolvedGrid == <<<<1, 2, 3, 4>>, <<3, 4, 1, 2>>, <<2, 1, 4, 3>>, <<4, 3, 2, 1>>>>
WrongGrid  == <<<<1, 2, 3, 4>>, <<3, 4, 1, 2>>, <<2, 1, 4, 3>>, <<4, 3, 2, 2>>>>
UnitGrid   == <<<<1>>>>

\* a list of rows as the 0-indexed grid the code reads
as_grid(rows) ==
    [i \in 0..(Len(rows) - 1) |-> [j \in 0..(Len(rows) - 1) |-> rows[i + 1][j + 1]]]

empty_grid(size) == [i \in 0..(size - 1) |-> [j \in 0..(size - 1) |-> 0]]

grid_cells(g) == (DOMAIN g) \X (DOMAIN g)

\* grids with at most k filled cells, all of them in the first row
RECURSIVE sparse_grids(_, _)
sparse_grids(size, k) ==
    IF k = 0 THEN {empty_grid(size)}
    ELSE LET fewer == sparse_grids(size, k - 1)
         IN  fewer \cup
             {[g EXCEPT ![c[1]][c[2]] = v] :
                 g \in fewer, c \in {0} \X (0..(size - 1)), v \in 1..size}

\* the grids got from g by emptying at most k cells
RECURSIVE blanked_grids(_, _)
blanked_grids(g, k) ==
    IF k = 0 THEN {g}
    ELSE LET fewer == blanked_grids(g, k - 1)
         IN  fewer \cup {[h EXCEPT ![c[1]][c[2]] = 0] : h \in fewer, c \in grid_cells(g)}

SudokuInputs ==
    UNION {sparse_grids(size, MaxGivens) : size \in SudokuSizes}
    \cup UNION {blanked_grids(as_grid(rows), MaxBlanks) :
                    rows \in {SolvedGrid, WrongGrid, UnitGrid}}

NQueensInputs == 0..MaxN

\* ---- MapColoringCSP(regions, neighbors, colors)
InitMap ==
    \E arg \in MapInputs :
        /\ kind = "map"
        /\ neighbors = arg.neighbors
        /\ grid = <<>>
        /\ n = 0
        /\ input = arg
        /\ CSPInit(arg.regions, MapColoringDomains(arg.regions, arg.colors),
                   <<"different_colors_constraint">>)
        /\ Fresh

\* ---- SudokuCSP(grid)
InitSudoku ==
    \E arg \in SudokuInputs :
        /\ kind = "sudoku"
        /\ neighbors = <<>>
        /\ grid = arg
        /\ n = 0
        /\ input = arg
        /\ CSPInit(SudokuVariables(arg), SudokuDomains(arg), <<"sudoku_constraints">>)
        /\ Fresh

\* ---- NQueensCSP(n)
InitQueens ==
    \E arg \in NQueensInputs :
        /\ kind = "queens"
        /\ neighbors = <<>>
        /\ grid = <<>>
        /\ n = arg
        /\ input = arg
        /\ CSPInit(NQueensVariables(arg), NQueensDomains(arg), <<"queens_constraints">>)
        /\ Fresh

Init == InitMap \/ InitSudoku \/ InitQueens

\* ---- CSP(variables, domains, constraints): the base class built directly,
\* with domains of different lengths and up to two constraints.  Values
\* are integers, every variable is a neighbor of every other one.
CSPDomainLists ==
    UNION {{range(0, m), [p \in 1..m |-> m - p]} : m \in 0..MaxColors}

CSPConstraintLists ==
    {<<>>, <<"different_colors_constraint">>, <<"queens_constraints">>,
     <<"different_colors_constraint", "queens_constraints">>}

CSPInputs ==
    UNION {{[variables |-> SubSeq(RegionNames, 1, k), domains |-> ds, constraints |-> cs] :
                ds \in [Range(SubSeq(RegionNames, 1, k)) -> CSPDomainLists],
                cs \in CSPConstraintLists} :
           k \in 0..MaxRegions}

InitCSP ==
    \E arg \in CSPInputs :
        /\ kind = "csp"
        /\ neighbors = [var \in Range(arg.variables) |-> Range(arg.variables) \ {var}]
        /\ grid = <<>>
        /\ n = 0
        /\ input = arg
        /\ CSPInit(arg.variables, arg.domains, arg.constraints)
        /\ Fresh

\* ------------------------------------------------------------------ steps
top == stack[Len(stack)]
pop == SubSeq(stack, 1, Len(stack) - 1)
set_top(frame) == [stack EXCEPT ![Len(stack)] = frame]

history == <<input, runs, startLen>>

\* mutant: the counter is not reset at the start of the call
solve_backtracking_no_reset ==
    /\ pc = "idle"
    /\ calls < MaxCalls
    /\ pc' = "backtrack"
    /\ calls' = calls + 1
    /\ startLen' = Len(assignments)
    /\ nCommits' = 0
    /\ nIncons' = 0
    /\ nEvals' = 0
    /\ firstBad' = FALSE
    /\ UNCHANGED <<problem, grid, assignments, backtrack_count, stack, ret,
                   solution, runs>>

\* solve_backtracking(), up to the call of backtrack()
solve_backtracking ==
    /\ pc = "idle"
    /\ calls < MaxCalls
    /\ backtrack_count' = 0
    /\ pc' = "backtrack"
    /\ calls' = calls + 1
    /\ startLen' = Len(assignments)
    /\ nCommits' = 0
    /\ nIncons' = 0
    /\ nEvals' = 0
    /\ firstBad' = FALSE
    /\ UNCHANGED <<problem, grid, assignments, stack, ret, solution, runs>>

\* what the base case returns: a copy of the dict, or for N-Queens the
\* list of columns by queen
complete_result ==
    IF kind = "queens"
    THEN Some([p \in 1..n |-> dict_get(assignments, queen_name(p - 1))])
    ELSE Some(assignments)

\* self.assignments[f"queen_{i}"] raises KeyError for a missing key
complete_raises ==
    kind = "queens" /\ \E p \in 1..n : ~dict_has(assignments, queen_name(p - 1))

\* backtrack(): "if self.is_complete(): return ..."
backtrack_complete ==
    /\ pc = "backtrack"
    /\ is_complete
    /\ IF complete_raises
       THEN pc' = "raised" /\ ret' = ret
       ELSE pc' = "return" /\ ret' = complete_result
    /\ UNCHANGED <<problem, grid, assignments, backtrack_count, stack, solution,
                   calls, history, nCommits, nIncons, nEvals, firstBad>>

\* backtrack(): select the variable, order its values, enter the loop
backtrack_select ==
    /\ pc = "backtrack"
    /\ ~is_complete
    /\ IF \A p \in DOMAIN variables : dict_has(assignments, variables[p])
       THEN \* min() of an empty list raises ValueError
            /\ pc' = "raised"
            /\ UNCHANGED <<assignments, domains, stack, nEvals>>
       ELSE LET var == select_unassigned_variable
            IN  /\ stack' = Append(stack, [var |-> var,
                                           values |-> order_domain_values(var),
                                           i |-> 1,
                                           entry |-> assignments])
                /\ assignments' = order_domain_values_assignments(var)
                /\ domains' = order_domain_values_domains(var)
                /\ nEvals' = nEvals + Len(domains[var]) * Len(constraints)
                /\ pc' = "for"
    /\ UNCHANGED <<kind, neighbors, n, variables, constraints, input, grid,
                   backtrack_count, ret, solution, calls, runs, startLen,
                   nCommits, nIncons, firstBad>>

\* the loop body when is_consistent(var, value) holds: the value stays in
\* the assignment and backtrack() is called
for_consistent ==
    /\ pc = "for"
    /\ top.i <= Len(top.values)
    /\ is_consistent(top.var, top.values[top.i])
    /\ assignments' = is_consistent_assignments(top.var, top.values[top.i])
    /\ nEvals' = nEvals + is_consistent_evals(top.var, top.values[top.i])
    /\ nCommits' = nCommits + 1
    /\ pc' = "backtrack"
    /\ UNCHANGED <<problem, grid, backtrack_count, stack, ret, solution, calls,
                   history, nIncons, firstBad>>

\* mutant: a rejected value is counted as a backtrack
for_inconsistent_counting ==
    /\ pc = "for"
    /\ top.i <= Len(top.values)
    /\ ~is_consistent(top.var, top.values[top.i])
    /\ assignments' = is_consistent_assignments(top.var, top.values[top.i])
    /\ nEvals' = nEvals + is_consistent_evals(top.var, top.values[top.i])
    /\ nIncons' = nIncons + 1
    /\ firstBad' = (firstBad \/ top.i = 1)
    /\ backtrack_count' = backtrack_count + 1
    /\ stack' = set_top([top EXCEPT !.i = top.i + 1])
    /\ UNCHANGED <<problem, grid, pc, ret, solution, calls, history, nCommits>>

\* the loop body when is_consistent(var, value) fails: next value
for_inconsistent ==
    /\ pc = "for"
    /\ top.i <= Len(top.values)
    /\ ~is_consistent(top.var, top.values[top.i])
    /\ assignments' = is_consistent_assignments(top.var, top.values[top.i])
    /\ nEvals' = nEvals + is_consistent_evals(top.var, top.values[top.i])
    /\ nIncons' = nIncons + 1
    /\ firstBad' = (firstBad \/ top.i = 1)
    /\ stack' = set_top([top EXCEPT !.i = top.i + 1])
    /\ UNCHANGED <<problem, grid, backtrack_count, pc, ret, solution, calls,
                   history, nCommits>>

\* mutant: the frame gives up before it has tried its last value
for_exhausted_early ==
    /\ pc = "for"
    /\ top.i >= Len(top.values)
    /\ assignments' = dict_del(assignments, top.var)
    /\ stack' = pop
    /\ ret' = None
    /\ pc' = "return"
    /\ UNCHANGED <<problem, grid, backtrack_count, solution, calls, history,
                   nCommits, nIncons, nEvals, firstBad>>

\* mutant: the frame returns None without deleting its own variable
for_exhausted_no_delete ==
    /\ pc = "for"
    /\ top.i > Len(top.values)
    /\ stack' = pop
    /\ ret' = None
    /\ pc' = "return"
    /\ UNCHANGED <<problem, grid, assignments, backtrack_count, solution, calls,
                   history, nCommits, nIncons, nEvals, firstBad>>

\* mutant: the exhausted frame counts a backtrack itself
for_exhausted_counting ==
    /\ pc = "for"
    /\ top.i > Len(top.values)
    /\ assignments' = dict_del(assignments, top.var)
    /\ backtrack_count' = backtrack_count + 1
    /\ stack' = pop
    /\ ret' = None
    /\ pc' = "return"
    /\ UNCHANGED <<problem, grid, solution, calls, history,
                   nCommits, nIncons, nEvals, firstBad>>

\* after the loop: "if var in self.assignments: del ..." and "return None"
for_exhausted ==
    /\ pc = "for"
    /\ top.i > Len(top.values)
    /\ assignments' = dict_del(assignments, top.var)
    /\ stack' = pop
    /\ ret' = None
    /\ pc' = "return"
    /\ UNCHANGED <<problem, grid, backtrack_count, solution, calls, history,
                   nCommits, nIncons, nEvals, firstBad>>

\* mutant: the frame undoes its own commitment on the success path too
return_success_undoes ==
    /\ pc = "return"
    /\ stack /= <<>>
    /\ truthy(ret)
    /\ assignments' = dict_del(assignments, top.var)
    /\ stack' = pop
    /\ UNCHANGED <<problem, grid, backtrack_count, pc, ret, solution,
                   calls, history, nCommits, nIncons, nEvals, firstBad>>

\* mutant: the counter is incremented before the result is tested
return_success_counting ==
    /\ pc = "return"
    /\ stack /= <<>>
    /\ truthy(ret)
    /\ backtrack_count' = backtrack_count + 1
    /\ stack' = pop
    /\ UNCHANGED <<problem, grid, assignments, pc, ret, solution,
                   calls, history, nCommits, nIncons, nEvals, firstBad>>

\* "result = backtrack()" came back true: "return result"
return_success ==
    /\ pc = "return"
    /\ stack /= <<>>
    /\ truthy(ret)
    /\ stack' = pop
    /\ UNCHANGED <<problem, grid, assignments, backtrack_count, pc, ret, solution,
                   calls, history, nCommits, nIncons, nEvals, firstBad>>

\* mutant: a failed subtree ends the loop, the other values are not tried
return_failure_gives_up ==
    /\ pc = "return"
    /\ stack /= <<>>
    /\ ~truthy(ret)
    /\ backtrack_count' = backtrack_count + 1
    /\ stack' = set_top([top EXCEPT !.i = Len(top.values) + 1])
    /\ pc' = "for"
    /\ UNCHANGED <<problem, grid, assignments, ret, solution, calls, history,
                   nCommits, nIncons, nEvals, firstBad>>

\* "result = backtrack()" came back false: count it, next value
return_failure ==
    /\ pc = "return"
    /\ stack /= <<>>
    /\ ~truthy(ret)
    /\ backtrack_count' = backtrack_count + 1
    /\ stack' = set_top([top EXCEPT !.i = top.i + 1])
    /\ pc' = "for"
    /\ UNCHANGED <<problem, grid, assignments, ret, solution, calls, history,
                   nCommits, nIncons, nEvals, firstBad>>

\* Sudoku: "result_grid[i][j] = value" for every item of the solution
RECURSIVE fill_grid(_, _)
fill_grid(g, items) ==
    IF items = <<>> THEN g
    ELSE LET ij == cell_index(Head(items)[1])
         IN  fill_grid([g EXCEPT ![ij[1]][ij[2]] = Head(items)[2]], Tail(items))

\* Sudoku: self.grid after the reconstruction, which writes into a copy of
\* every row ("[row[:] for row in self.grid]")
grid_after_reconstruct(g, items) == g

\* what solve_backtracking() returns for the root backtrack() result
solve_result(result) ==
    IF kind = "sudoku"
    THEN IF truthy(result) THEN Some(fill_grid(grid, result.val)) ELSE None
    ELSE result

\* solve_backtracking(), from "solution = backtrack()" to its return
solve_return ==
    /\ pc = "return"
    /\ stack = <<>>
    /\ solution' = solve_result(ret)
    /\ grid' = IF kind = "sudoku" /\ truthy(ret)
               THEN grid_after_reconstruct(grid, ret.val)
               ELSE grid
    /\ runs' = Append(runs, <<solve_result(ret), backtrack_count>>)
    /\ pc' = "idle"
    /\ UNCHANGED <<problem, assignments, backtrack_count, stack, ret, calls,
                   startLen, nCommits, nIncons, nEvals, firstBad>>

Next ==
    \/ solve_backtracking
    \/ backtrack_complete
    \/ backtrack_select
    \/ for_consistent
    \/ for_inconsistent
    \/ for_exhausted
    \/ return_success
    \/ return_failure
    \/ solve_return

Spec == Init /\ [][Next]_vars

\* The program is sequential and nothing preempts it: control does not
\* rest for ever at a statement of a running call. At the first statement
\* of backtrack() it moves into the loop, to a return or to the exception;
\* in the loop it moves to the next value, into a call or to the return; at
\* a return it moves to the caller. The caller is free not to call again.
advances ==
    \/ pc = "backtrack" /\ pc' \in {"for", "return", "raised"} /\ stack' = stack
    \/ pc = "for" /\ pc' \in {"for", "backtrack", "return"}
                  /\ stack' \in {stack, pop, set_top([top EXCEPT !.i = top.i + 1])}
    \/ pc = "return" /\ pc' \in {"return", "for", "idle"}
                     /\ stack' \in {stack, pop, set_top([top EXCEPT !.i = top.i + 1])}

LiveSpec == Init /\ [][Next]_vars /\ WF_<<pc, stack>>(advances)

\* The search run on a CSP object built from the base class.
SpecCSP == InitCSP /\ [][Next]_vars

\* ----------------------------------------------------- returned results
\* a solve_backtracking() call has returned
Returned == pc = "idle" /\ calls > 0

Succeeded == Returned /\ ~solution.none

\* the returned value read back as an assignment, variable by variable in
\* declared order: the dict itself (map coloring), the column of every
\* queen (N-Queens), the value of every empty cell (Sudoku)
returned_assignment ==
    CASE kind = "map"    -> solution.val
      [] kind = "queens" ->
            [p \in DOMAIN solution.val |-> <<queen_name(p - 1), solution.val[p]>>]
      [] kind = "sudoku" ->
            [p \in DOMAIN variables |->
                <<variables[p],
                  solution.val[cell_index(variables[p])[1]][cell_index(variables[p])[2]]>>]

all_constraints_hold(asg) ==
    \A c \in DOMAIN constraints : constraint(constraints[c], asg)

\* some complete assignment of domain values (in declared variable order)
\* satisfies every constraint
Satisfiable ==
    LET values == UNION {Range(domains[var]) : var \in DOMAIN domains}
    IN  \E f \in [DOMAIN variables -> values] :
            /\ \A p \in DOMAIN variables : f[p] \in Range(domains[variables[p]])
            /\ all_constraints_hold([p \in DOMAIN variables |-> <<variables[p], f[p]>>])

\* C1: whenever solve_backtracking returns a non-failure result, every
\* constraint evaluates to true against the complete returned assignment.
C1_ConstraintsHold ==
    Succeeded => all_constraints_hold(returned_assignment)

\* a two-region map whose neighbor lists forced a second color
C1_Witness ==
    /\ Succeeded
    /\ kind = "map"
    /\ Len(variables) = 2
    /\ Cardinality(Range(dict_values(solution.val))) >= 2

\* the domain the puzzle gives a variable: the color list, 1..N, 0..N-1
puzzle_domain ==
    CASE kind = "map"    -> Range(input.colors)
      [] kind = "sudoku" -> 1..size_of(input)
      [] kind = "queens" -> 0..(input - 1)

\* C2: a non-failure result has exactly one value for every variable of
\* the problem, never fewer, and each value is in the variable's domain.
C2_CompleteInDomain ==
    Succeeded =>
        /\ kind = "map" =>
              /\ Len(solution.val) = Len(variables)
              /\ \A var \in Range(variables) :
                    /\ Cardinality({p \in DOMAIN solution.val : solution.val[p][1] = var}) = 1
                    /\ dict_get(solution.val, var) \in Range(domains[var]) \cap puzzle_domain
        /\ kind = "queens" =>
              /\ Len(solution.val) = Len(variables)
              /\ \A p \in DOMAIN solution.val :
                    solution.val[p] \in Range(domains[variables[p]]) \cap puzzle_domain
        /\ kind = "sudoku" =>
              /\ Len(assignments) = Len(variables)
              /\ \A var \in Range(variables) :
                    /\ Cardinality({p \in DOMAIN assignments : assignments[p][1] = var}) = 1
                    /\ dict_get(assignments, var) \in Range(domains[var]) \cap puzzle_domain
                    /\ dict_get(returned_assignment, var) = dict_get(assignments, var)

C2_Witness ==
    /\ Succeeded
    /\ kind = "queens"
    /\ n = 4
    /\ backtrack_count > 0

\* C3: failure is a sound proof of unsatisfiability (map coloring and
\* N-Queens): when None is returned, no complete assignment of domain
\* values satisfies all constraints.
C3_FailureSound ==
    (Returned /\ kind \in {"map", "queens"} /\ solution = None) => ~Satisfiable

\* 3-Queens: the search committed values, backtracked and then failed
C3_Witness ==
    /\ Returned
    /\ solution = None
    /\ kind = "queens"
    /\ n = 3
    /\ backtrack_count > 2

\* the scenario of two adjacent regions and the single color red
TwoRegionsOneColor ==
    [regions |-> <<"A", "B">>,
     neighbors |-> [region \in {"A", "B"} |-> IF region = "A" THEN {"B"} ELSE {"A"}],
     colors |-> <<"red">>]

\* instances small enough to enumerate every complete assignment
Enumerable == kind /= "sudoku" \/ Len(variables) <= MaxBlanks

\* C4: for every unsatisfiable instance solve_backtracking returns the
\* failure marker, never a partial or inconsistent assignment; 2-Queens
\* and the map {A,B}, A-B adjacent, one color, return failure.
C4_UnsatisfiableFails ==
    Returned =>
        /\ (Enumerable /\ ~Satisfiable) => solution = None
        /\ (kind = "queens" /\ n = 2) => solution = None
        /\ (kind = "map" /\ input = TwoRegionsOneColor) => solution = None

C4_Witness ==
    /\ Returned
    /\ kind = "map"
    /\ input = TwoRegionsOneColor
    /\ solution = None
    /\ backtrack_count = 1

\* values committed in the current call that are still in the assignment
kept == Len(assignments) - startLen

\* C5 (as claimed): at the end of a solve call the backtrack counter equals
\* the number of tried values that were found inconsistent plus the number
\* found consistent whose subtree failed.
C5_CountsInconsistentToo ==
    Returned => backtrack_count = nIncons + (nCommits - kept)

\* C5 (amended): the backtrack counter equals the number of values that
\* were found consistent and whose subtree then failed; a value rejected
\* by the consistency check does not increment it.
C5_CountsFailedSubtrees ==
    Returned => backtrack_count = nCommits - kept

C5_Witness ==
    /\ Returned
    /\ nIncons > 0
    /\ backtrack_count > 0
    /\ ~solution.none

\* C6: a second solve_backtracking() call on the same solver object yields
\* the same result and the same backtrack count as the first call.
C6_SecondCallSame ==
    Len(runs) >= 2 => runs[2] = runs[1]

\* C7: the backtrack count at the end of a solve call is 0 whenever the
\* first value tried for every selected variable was consistent.
C7_ZeroWhenFirstValuesFit ==
    (Returned /\ ~firstBad) => backtrack_count = 0

\* a search over five variables that never met an inconsistent first value
C7_Witness ==
    /\ Returned
    /\ ~firstBad
    /\ kind = "queens"
    /\ nCommits = 5

\* C8: NQueensCSP(4).solve_backtracking() on a fresh solver returns
\* [1,3,0,2], and the backtrack count of that run is one fixed value (4).
C8_FourQueens ==
    (kind = "queens" /\ n = 4 /\ Len(runs) >= 1) => runs[1] = <<Some(<<1, 3, 0, 2>>), 4>>

C8_Witness ==
    /\ Returned
    /\ kind = "queens"
    /\ n = 4
    /\ Len(runs) = 1
    /\ solution = Some(<<1, 3, 0, 2>>)

\* C9: a grid returned by SudokuCSP.solve_backtracking equals the input at
\* every non-zero input cell, has no zero, has each of 1..N exactly once in
\* every row, column and box, and the input grid is not modified.
C9_SudokuGrid ==
    (Succeeded /\ kind = "sudoku") =>
        LET g == solution.val
            size == size_of(input)
            box_size == int_sqrt(size)
            idx == 0..(size - 1)
            corners == {b \in idx : b % box_size = 0}
            once(cells) == /\ Cardinality(cells) = size
                           /\ \A v \in 1..size :
                                 Cardinality({c \in cells : g[c[1]][c[2]] = v}) = 1
        IN  /\ DOMAIN g = idx
            /\ \A i \in idx : DOMAIN g[i] = idx
            /\ \A i \in idx : \A j \in idx :
                  /\ input[i][j] /= 0 => g[i][j] = input[i][j]
                  /\ g[i][j] /= 0
            /\ \A i \in idx : once({i} \X idx)
            /\ \A j \in idx : once(idx \X {j})
            /\ \A bi \in corners : \A bj \in corners :
                  once((bi..(bi + box_size - 1)) \X (bj..(bj + box_size - 1)))
            /\ grid = input

\* a 4x4 grid solved after backtracking
C9_Witness ==
    /\ Succeeded
    /\ kind = "sudoku"
    /\ size_of(input) = 4
    /\ backtrack_count > 0

\* some variable of the variable set has an empty domain
EmptyDomain == \E p \in DOMAIN variables : domains[variables[p]] = <<>>

\* C10: if a variable has an empty domain, solve returns the failure marker
\* at once: no value is committed, no constraint is evaluated, the
\* backtrack counter stays 0, and no nested backtrack() call is made.
C10_EmptyDomainFailsAtOnce ==
    EmptyDomain =>
        /\ assignments = <<>>
        /\ nCommits = 0
        /\ nEvals = 0
        /\ backtrack_count = 0
        /\ Len(stack) <= 1
        /\ Returned => solution = None

C10_Witness ==
    /\ Returned
    /\ EmptyDomain
    /\ Len(variables) >= 2
    /\ solution = None

\* ------------------------------------------------------- the search path
\* the root call of backtrack() is about to run / has returned
RootCalled == pc = "backtrack" /\ stack = <<>>
RootReturned == pc = "return" /\ stack = <<>>

\* values of the current call that were tried at all
tried == nCommits + nIncons

\* Success: the assignment is complete and consistent
SuccessState ==
    /\ is_complete
    /\ all_constraints_hold(assignments)

\* Failure: the root call returned None after trying every value of its
\* variable
FailureState ==
    /\ solution = None
    /\ ret = None
    /\ Len(variables) >= 1
    /\ tried >= Len(domains[variables[1]])

\* C11 (as claimed): for every input, also one with no variable, a solve
\* call ends in Success (complete and consistent assignment) or in
\* Failure (the root call exhausted its values).
C11_TwoTerminalStates ==
    Returned => (SuccessState \/ FailureState)

\* C11 (amended): every solve call terminates; when the variable list is
\* not empty it ends in Success, with a result returned, or in Failure.
C11_Terminates ==
    RootCalled ~> (/\ Returned
                   /\ Len(variables) >= 1 =>
                         \/ SuccessState /\ ~solution.none
                         \/ FailureState)

\* an unsatisfiable Sudoku grid with empty cells: the call ended in Failure
C11_Witness ==
    /\ Returned
    /\ kind = "sudoku"
    /\ Len(variables) >= 1
    /\ FailureState
    /\ nIncons > 0

\* C12: the backtrack counter is 0 at the start of every call, and after a
\* later call it holds that call's backtracks only: the count of the first
\* call again when the search is repeated (the previous call failed), 0
\* when the previous call left a complete assignment behind.
C12_CounterReset ==
    /\ RootCalled => backtrack_count = 0
    /\ \A k \in 2..Len(runs) :
          runs[k][2] = (IF runs[k - 1][1] = None THEN runs[1][2] ELSE 0)

\* two calls that both searched and backtracked
C12_Witness ==
    /\ Len(runs) = 2
    /\ runs[1][1] = None
    /\ runs[1][2] > 0
    /\ runs[2][2] = runs[1][2]

\* C13: a backtrack() call that returns failure leaves the assignment as
\* it was when the call was entered; after a root failure it is empty; on
\* the success path it is left complete.
C13_FailureRestores ==
    [][ /\ (pc = "for" /\ pc' = "return") => assignments' = top.entry
        /\ (RootReturned /\ ret = None /\ pc' = "idle") => assignments' = <<>>
        /\ (RootReturned /\ truthy(ret) /\ pc' = "idle") =>
              Len(assignments') = Len(variables) ]_vars

\* a nested call has just returned failure
C13_Witness ==
    /\ pc = "return"
    /\ ret = None
    /\ Len(stack) >= 2
    /\ nCommits >= 3
    /\ assignments = top.entry \o <<<<top.var, top.values[top.i]>>>>

\* the values committed by a list of frames, root first
path(frames) ==
    [p \in DOMAIN frames |-> <<frames[p].var, frames[p].values[frames[p].i]>>]

\* the assignments the p-th count_conflicts call of order_domain_values
\* starts from
count_conflicts_sees(var, p) ==
    IF p = 1 THEN assignments ELSE dict_del(assignments, var)

\* C14: at every constraint evaluation (consistency check and conflict
\* count) the assignment passed is exactly the values committed on the path
\* from the root, in order, followed by the tentative pair.
C14_ExactPath ==
    /\ (pc = "for" /\ top.i <= Len(top.values)) =>
          dict_set(assignments, top.var, top.values[top.i])
              = Append(path(pop), <<top.var, top.values[top.i]>>)
    /\ (pc = "backtrack" /\ ~is_complete) =>
          LET var == select_unassigned_variable
          IN  \A p \in DOMAIN domains[var] :
                 dict_set(count_conflicts_sees(var, p), var, domains[var][p])
                     = Append(path(stack), <<var, domains[var][p]>>)

\* a value is about to be checked after a sibling branch below it failed
C14_Witness ==
    /\ pc = "for"
    /\ Len(stack) >= 2
    /\ top.i >= 2
    /\ top.i <= Len(top.values)
    /\ dict_has(assignments, top.var)

\* C15: once a call has returned success, every enclosing frame returns
\* the same result at once: nothing is tried or evaluated and neither the
\* assignment nor the counter changes up to the return of the root call.
C15_SuccessPropagates ==
    [][ (pc = "return" /\ truthy(ret)) =>
            /\ assignments' = assignments
            /\ backtrack_count' = backtrack_count
            /\ nEvals' = nEvals
            /\ nCommits' = nCommits
            /\ nIncons' = nIncons
            /\ IF stack = <<>>
               THEN /\ pc' = "idle"
                    /\ ~solution'.none
                    /\ kind /= "sudoku" => solution' = ret
               ELSE /\ pc' = "return"
                    /\ ret' = ret
                    /\ stack' = pop ]_vars

\* a success is on its way up through at least two frames after backtracks
C15_Witness ==
    /\ pc = "return"
    /\ truthy(ret)
    /\ Len(stack) >= 2
    /\ backtrack_count > 0

\* ------------------------------------------------------------ heuristics
\* C16: the variable selected is unassigned, no unassigned variable has a
\* shorter domain, and every unassigned variable declared before it has a
\* longer one.
C16_MRV ==
    pc = "for" =>
        LET unassigned(var) == ~dict_has(top.entry, var)
            key(var) == Len(domains[var])
        IN  /\ unassigned(top.var)
            /\ \A p \in DOMAIN variables :
                  unassigned(variables[p]) => key(top.var) <= key(variables[p])
            /\ \E q \in DOMAIN variables :
                  /\ variables[q] = top.var
                  /\ \A p \in 1..(q - 1) :
                        unassigned(variables[p]) => key(variables[p]) > key(top.var)

\* the root call passed over the first declared variable for a later one
\* with a shorter domain
C16_Witness ==
    /\ pc = "for"
    /\ Len(stack) = 1
    /\ top.var /= variables[1]
    /\ Len(domains[top.var]) < Len(domains[variables[1]])

\* C17: the ordered values are a permutation of the domain, ascending in
\* the number of constraints that fail on the assignment extended with the
\* value; values with equal counts keep their order in the domain.
C17_LCV ==
    pc = "for" =>
        LET values == domains[top.var]
            conflicts(p) == count_conflicts(top.entry, top.var, values[p])
        IN  \E f \in [DOMAIN values -> DOMAIN values] :
               /\ DOMAIN top.values = DOMAIN values
               /\ \A p \in DOMAIN values : top.values[p] = values[f[p]]
               /\ \A p, q \in DOMAIN values :
                     (p < q) => \/ conflicts(f[p]) < conflicts(f[q])
                                \/ /\ conflicts(f[p]) = conflicts(f[q])
                                   /\ f[p] < f[q]

\* a value with more conflicts was moved behind one with fewer
C17_Witness ==
    /\ pc = "for"
    /\ Len(top.values) >= 2
    /\ top.values /= domains[top.var]
    /\ Len(constraints) = 2

\* self.domains as the constructor built it
domains_at_construction ==
    CASE kind = "map"    -> MapColoringDomains(input.regions, input.colors)
      [] kind = "sudoku" -> SudokuDomains(input)
      [] kind = "queens" -> NQueensDomains(input)

\* C18: the domain mapping is at every step, and after every call, the one
\* built at construction: same values in the same order.
C18_DomainsUnchanged ==
    domains = domains_at_construction

\* a call has ended after frames that tried their values in another order
\* than the domain's
C18_Witness ==
    /\ Returned
    /\ kind = "queens"
    /\ n >= 4
    /\ backtrack_count > 0
    /\ \E var \in DOMAIN domains : order_domain_values(var) /= domains[var]

\* the keys of a dict are queen_0, queen_1, ... in this order, without gaps
queens_in_order(asg) ==
    \A p \in DOMAIN asg : asg[p][1] = queen_name(p - 1)

\* C19: in a solve of N-Queens that started from the empty assignment,
\* every assignment handed to queens_constraints has the keys queen_0,
\* queen_1, ..., queen_k in this order.
C19_QueensInOrder ==
    (kind = "queens" /\ startLen = 0) =>
        /\ (pc = "for" /\ top.i <= Len(top.values)) =>
              queens_in_order(dict_set(assignments, top.var, top.values[top.i]))
        /\ (pc = "backtrack" /\ ~is_complete) =>
              LET var == select_unassigned_variable
              IN  \A p \in DOMAIN domains[var] :
                     queens_in_order(dict_set(count_conflicts_sees(var, p),
                                              var, domains[var][p]))

\* a queen's value is about to be overwritten, after backtracks, below two
\* other queens
C19_Witness ==
    /\ kind = "queens"
    /\ startLen = 0
    /\ pc = "for"
    /\ Len(stack) >= 3
    /\ top.i >= 2
    /\ top.i <= Len(top.values)
    /\ backtrack_count > 0
    /\ dict_has(assignments, top.var)

\* ------------------------------------------------------------ no variables
NoVariables == Returned /\ Len(variables) = 0

\* C20 (as claimed): with no variables, a full Sudoku grid or
\* NQueensCSP(0), solve_backtracking returns None.
C20_NoVariablesNone ==
    (NoVariables /\ kind \in {"sudoku", "queens"}) => solution = None

\* C20 (amended): with no variables a Sudoku solve returns None whether
\* the full grid is valid or not and evaluates no constraint, while
\* NQueensCSP(0) returns the empty list and not None.
C20_NoVariables ==
    NoVariables =>
        /\ backtrack_count = 0
        /\ nEvals = 0
        /\ kind = "sudoku" => solution = None
        /\ kind = "queens" => solution = Some(<<>>)

\* a valid full grid was given and None came back
C20_Witness ==
    /\ NoVariables
    /\ kind = "sudoku"
    /\ size_of(grid) = 4
    /\ sudoku_constraints(<<>>)
    /\ solution = None

====
